---- MODULE Spec2Model ----
(***************************************************************************)
(* A model of the document parser of src/parsers.py: the PDF page          *)
(* classifier (_is_scanned_pdf, _analyze_pdf), the parser selection        *)
(* (_auto_select_parser, _get_parser_method) and parse with the engines'   *)
(* fallback behaviour.                                                     *)
(*                                                                         *)
(* A file is what the parser can observe of a path: its extension, whether *)
(* it exists, whether PyMuPDF (fitz) can open and read it, and, when it    *)
(* can, the pages fitz sees.  A page is reduced to the two numbers the     *)
(* classifier reads: the length of its stripped text and the number of     *)
(* embedded images.  The text of a page, and the text a library makes of   *)
(* a whole document, are atoms of the Document's content.                  *)
(*                                                                         *)
(* The RAG export of src/app.py (_clean_text, chunk_text, build_rag_json)  *)
(* works on texts that are sequences of characters.                        *)
(***************************************************************************)
EXTENDS Integers, Sequences, FiniteSets, TLC

VARIABLES
    tool,             \* DocumentParser.tool
    detect_scanned,   \* DocumentParser.detect_scanned
    extract_images,   \* DocumentParser.extract_images
    ocr_lang,         \* DocumentParser.ocr_lang
    missing,          \* the libraries whose import raises ImportError
    pdf,              \* the file handed to the classifier operations
    scanned,          \* outcome of the last _is_scanned_pdf(pdf)
    analysis,         \* outcome of the last _analyze_pdf(pdf)
    selected,         \* outcome of the last _auto_select_parser(doc_type, pdf)
    call,             \* the last parse call: its input and its outcome
    given_text,       \* the text handed to chunk_text
    given_max_chars,  \* the chunk size chosen (max_chars, chunk_size)
    given_overlap,    \* the overlap chosen
    chunked,          \* outcome of the last chunk_text(text, max_chars, overlap)
    parsed,           \* the parsed results handed to build_rag_json
    rag,              \* outcome of the last build_rag_json(results, ...)
    digests,          \* the SHA-1 digests computed so far, by input
    issued,           \* the ids _stable_id has returned, by parts
    earlier,          \* how the parse call before the last one ended
    given_tables,     \* what page.extract_tables() returned for a page
    table_md,         \* the Markdown pdfplumber's engine wrote for them
    given_image_lists,\* what page.get_images() returns for each page
    extracted         \* the images list _extract_images_pymupdf returned

vars == <<tool, detect_scanned, extract_images, ocr_lang, missing,
          pdf, scanned, analysis, selected, call,
          given_text, given_max_chars, given_overlap, chunked, parsed, rag,
          digests, issued, earlier, given_tables, table_md,
          given_image_lists, extracted>>

parser == <<tool, detect_scanned, extract_images, ocr_lang>>

\* The state of the parser and of the operations on it.
parsing == <<parser, missing, pdf, scanned, analysis, selected, call>>

\* The state of the RAG export.
export == <<given_text, given_max_chars, given_overlap, chunked, parsed, rag>>

\* The chunk ids.
ids == <<digests, issued>>

\* The tables and the images of a PDF.
extraction == <<given_tables, table_md, given_image_lists, extracted>>

----------------------------------------------------------------------------
(* Bounds of the model.                                                    *)

\* Longest PDF handed to _is_scanned_pdf alone (one more than the sample).
MaxScanPages == 6
\* Longest PDF handed to the full classifier.
MaxPages == 3
\* Longest document handed to parse.
MaxParsePages == 2
\* Most libraries missing from one installation.
MaxMissing == 1
\* Longest text handed to chunk_text.
MaxTextLen == 6
\* Largest chunk size and largest overlap chosen.
MaxChars == 5
MaxOverlap == 3
\* Most pages in the results handed to build_rag_json.
MaxRagPages == 2
\* Largest digest: the 64 bits that _stable_id keeps of a SHA-1, scaled down.
MaxDigest == 1

\* Most rows of a table and most cells of a row.
MaxRows == 2
MaxCols == 2

\* Most pages of a PDF with images.
MaxImagePages == 2

----------------------------------------------------------------------------
(* Values.                                                                 *)

None == "None"

Pending == [state |-> "pending"]
Returned(v) == [state |-> "returned", value |-> v]
Raised(e) == [state |-> "raised", error |-> e]

Min(a, b) == IF a < b THEN a ELSE b
Range(s) == {s[i] : i \in DOMAIN s}

RECURSIVE SeqsUpTo(_, _)
SeqsUpTo(S, n) ==
    IF n = 0 THEN {<<>>}
    ELSE LET shorter == SeqsUpTo(S, n - 1)
         IN  shorter \cup {Append(s, x) : s \in {t \in shorter : Len(t) = n - 1}, x \in S}

\* Stripped text lengths around the two thresholds of the classifier.
ScanTextLens == {0, 49, 50, 500}
TextLens == {0, 50, 51}
ImageCounts == {0, 1}

ReadablePdf(pages) == [ext |-> "pdf", state |-> "readable", pages |-> pages]
UnreadablePdf == [ext |-> "pdf", state |-> "unreadable", pages |-> <<>>]
MissingPdf == [ext |-> "pdf", state |-> "missing", pages |-> <<>>]
\* A file fitz opens but whose pages it cannot read (encrypted, corrupt).
DamagedPdf(pages) == [ext |-> "pdf", state |-> "damaged", pages |-> pages]

----------------------------------------------------------------------------
(* The quick scan detection, parsers.py:152-174.                           *)

\* The text length below which _is_scanned_pdf counts a page as textless.
SCAN_MIN_TEXT == 50
\* The number of leading pages _is_scanned_pdf samples.
SAMPLE_SIZE == 5
\* The ratio 0.7 the textless share must exceed, as a fraction.
THRESHOLD_NUM == 7
THRESHOLD_DEN == 10

\* fitz.open(path): raises unless fitz is installed and can open the file.
FitzOpen(f, miss) ==
    IF "fitz" \in miss THEN Raised("ImportError")
    ELSE IF f.state \notin {"readable", "damaged"} THEN Raised("FileDataError")
    ELSE Returned(f.pages)

\* page.get_text() raises on the pages of a damaged file.
Unread(f, n) == f.state = "damaged" /\ n > 0

\* How a try block ends, with the number of document handles it opened and
\* did not close.
Ended(r, open) ==
    IF r.state = "raised"
    THEN [state |-> "raised", error |-> r.error, open |-> open]
    ELSE [state |-> "returned", value |-> r.value, open |-> open]

\* `not text or len(text) < 50` on the stripped text of a page.
Textless(page) == page.text_len = 0 \/ page.text_len < SCAN_MIN_TEXT

\* The loop over range(min(5, total_pages)): pages_without_text after the
\* first n pages.
RECURSIVE PagesWithoutText(_, _)
PagesWithoutText(pages, n) ==
    IF n = 0 THEN 0
    ELSE PagesWithoutText(pages, n - 1) + (IF Textless(pages[n]) THEN 1 ELSE 0)

SampledAll(total_pages) == total_pages
Sampled(total_pages) == Min(SAMPLE_SIZE, total_pages)

\* The body of the try block; the division raises on an empty document.
ScanTry(f, miss) ==
    LET doc == FitzOpen(f, miss)
    IN  IF doc.state = "raised" THEN Ended(doc, 0)
        ELSE LET total_pages == Len(doc.value)
                 n == Sampled(total_pages)
                 pages_without_text == PagesWithoutText(doc.value, n)
             IN  IF Unread(f, n) THEN Ended(Raised("RuntimeError"), 1)
                 ELSE IF n = 0 THEN Ended(Raised("ZeroDivisionError"), 0)
                 ELSE Ended(Returned(THRESHOLD_DEN * pages_without_text
                                         > THRESHOLD_NUM * n), 0)

\* try ... except Exception: return False
_is_scanned_pdf(f, miss) ==
    LET r == ScanTry(f, miss)
    IN  IF r.state = "raised" THEN Returned(FALSE) ELSE Returned(r.value)

----------------------------------------------------------------------------
(* The full classification, parsers.py:176-223.                            *)

\* The text length a page must exceed to have text for _analyze_pdf.
MIN_TEXT == 50

NoPages == [scanned_pages |-> <<>>, hybrid_pages |-> <<>>, digital_pages |-> <<>>]

\* One iteration of the loop, for the page with 0-based index page_num.
ClassifyPage(acc, page, page_num) ==
    LET has_text == page.text_len > MIN_TEXT
        has_images == page.n_images > 0
    IN  IF ~has_text /\ has_images
            THEN [acc EXCEPT !.scanned_pages = Append(@, page_num + 1)]
        ELSE IF has_text /\ has_images
            THEN [acc EXCEPT !.hybrid_pages = Append(@, page_num + 1)]
        ELSE IF has_text
            THEN [acc EXCEPT !.digital_pages = Append(@, page_num + 1)]
        ELSE acc

\* for page_num in range(total_pages): the lists after the first n pages.
RECURSIVE ClassifyPages(_, _)
ClassifyPages(pages, n) ==
    IF n = 0 THEN NoPages
    ELSE ClassifyPage(ClassifyPages(pages, n - 1), pages[n], n - 1)

\* "Determine overall type".
PdfTypeAnyScanned(lists, total_pages) ==
    IF Len(lists.scanned_pages) > 0 THEN "Scanned"
    ELSE IF Len(lists.digital_pages) = total_pages THEN "Digital"
    ELSE "Hybrid"
PdfType(lists, total_pages) ==
    IF Len(lists.scanned_pages) = total_pages THEN "Scanned"
    ELSE IF Len(lists.digital_pages) = total_pages THEN "Digital"
    ELSE "Hybrid"

\* The body of the try block.
AnalyzeTry(f, miss) ==
    LET doc == FitzOpen(f, miss)
    IN  IF doc.state = "raised" THEN Ended(doc, 0)
        ELSE LET total_pages == Len(doc.value)
                 lists == ClassifyPages(doc.value, total_pages)
             IN  IF Unread(f, total_pages) THEN Ended(Raised("RuntimeError"), 1)
                 ELSE Ended(Returned([type |-> PdfType(lists, total_pages),
                           total_pages |-> total_pages,
                           scanned_pages |-> lists.scanned_pages,
                           hybrid_pages |-> lists.hybrid_pages,
                           digital_pages |-> lists.digital_pages,
                           has_text |-> Len(lists.digital_pages) > 0
                                        \/ Len(lists.hybrid_pages) > 0]), 0)

\* The empty dict.
EmptyDict == <<>>

Uncaught_analyze_pdf(f, miss) == AnalyzeTry(f, miss)
\* try ... except Exception: return {}
_analyze_pdf(f, miss) ==
    LET r == AnalyzeTry(f, miss)
    IN  IF r.state = "raised" THEN Returned(EmptyDict) ELSE Returned(r.value)

----------------------------------------------------------------------------
(* Parser selection, parsers.py:101-150.                                   *)

SUPPORTED_EXTENSIONS ==
    [pdf |-> {"pdf"},
     word |-> {"docx", "doc"},
     powerpoint |-> {"pptx", "ppt"},
     excel |-> {"xlsx", "xls", "csv"},
     text |-> {"txt", "md", "html", "htm"}]

DocTypes == DOMAIN SUPPORTED_EXTENSIONS

GetDocumentTypeText(extension) ==
    IF \E doc_type \in DocTypes : extension \in SUPPORTED_EXTENSIONS[doc_type]
    THEN CHOOSE doc_type \in DocTypes : extension \in SUPPORTED_EXTENSIONS[doc_type]
    ELSE "text"
_get_document_type(extension) ==
    IF \E doc_type \in DocTypes : extension \in SUPPORTED_EXTENSIONS[doc_type]
    THEN CHOOSE doc_type \in DocTypes : extension \in SUPPORTED_EXTENSIONS[doc_type]
    ELSE "unknown"

\* An engine is named by the method that implements it.
Engines ==
    {"_parse_with_pymupdf", "_parse_with_pymupdf4llm", "_parse_with_docling",
     "_parse_with_unstructured", "_parse_with_pdfplumber", "_parse_word",
     "_parse_powerpoint", "_parse_excel", "_parse_with_tesseract",
     "_parse_with_easyocr", "_parse_text"}

\* A selection: the method chosen, or the error raised, and the number of
\* times the quick scan detection was run to make it.
Chosen(method, scans) == [state |-> "returned", value |-> method, scans |-> scans]
Refused(error, scans) == [state |-> "raised", error |-> error, scans |-> scans]

AutoSelectAlwaysScan(doc_type, f, miss) ==
    IF doc_type = "pdf"
    THEN IF _is_scanned_pdf(f, miss).value
         THEN Chosen("_parse_with_tesseract", 1)
         ELSE Chosen("_parse_with_pymupdf4llm", 1)
    ELSE IF doc_type = "word" THEN Chosen("_parse_word", 0)
    ELSE IF doc_type = "powerpoint" THEN Chosen("_parse_powerpoint", 0)
    ELSE IF doc_type = "excel" THEN Chosen("_parse_excel", 0)
    ELSE IF doc_type = "text" THEN Chosen("_parse_text", 0)
    ELSE Refused("ValueError: Unsupported document type", 0)
_auto_select_parser(doc_type, f, miss) ==
    IF doc_type = "pdf"
    THEN IF detect_scanned
         THEN IF _is_scanned_pdf(f, miss).value
              THEN Chosen("_parse_with_tesseract", 1)
              ELSE Chosen("_parse_with_pymupdf4llm", 1)
         ELSE Chosen("_parse_with_pymupdf4llm", 0)
    ELSE IF doc_type = "word" THEN Chosen("_parse_word", 0)
    ELSE IF doc_type = "powerpoint" THEN Chosen("_parse_powerpoint", 0)
    ELSE IF doc_type = "excel" THEN Chosen("_parse_excel", 0)
    ELSE IF doc_type = "text" THEN Chosen("_parse_text", 0)
    ELSE Refused("ValueError: Unsupported document type", 0)

method_map ==
    ("pymupdf" :> "_parse_with_pymupdf")
    @@ ("pymupdf4llm" :> "_parse_with_pymupdf4llm")
    @@ ("docling" :> "_parse_with_docling")
    @@ ("unstructured" :> "_parse_with_unstructured")
    @@ ("pdfplumber" :> "_parse_with_pdfplumber")
    @@ ("python-docx" :> "_parse_word")
    @@ ("python-pptx" :> "_parse_powerpoint")
    @@ ("openpyxl" :> "_parse_excel")
    @@ ("tesseract_ocr" :> "_parse_with_tesseract")
    @@ ("easyocr" :> "_parse_with_easyocr")

GetParserMethodDefault(tool_name) ==
    IF tool_name \notin DOMAIN method_map
    THEN Chosen("_parse_with_pymupdf4llm", 0)
    ELSE Chosen(method_map[tool_name], 0)
_get_parser_method(tool_name) ==
    IF tool_name \notin DOMAIN method_map
    THEN Refused("ValueError: Unknown tool", 0)
    ELSE Chosen(method_map[tool_name], 0)

----------------------------------------------------------------------------
(* The engines, parsers.py:225-671.  An engine returns a Document or       *)
(* raises; `events` lists, in order, every engine that ran in the call and *)
(* how it ended.  `lib` is the answer of the engine's own library to the   *)
(* file: "ok", "raises" (any exception other than ImportError) or, for     *)
(* docling, "failure" (a conversion result whose status is FAILURE).       *)

Libs ==
    {"fitz", "pymupdf4llm", "pdfplumber", "docling", "unstructured", "docx",
     "pptx", "openpyxl", "pytesseract", "pdf2image", "easyocr"}

LibResponses == {"ok", "raises", "failure"}

\* The libraries each engine imports before it reads the file.
Imports(engine) ==
    CASE engine = "_parse_with_pymupdf" -> {"fitz"}
      [] engine = "_parse_with_pymupdf4llm" -> {"pymupdf4llm", "fitz"}
      [] engine = "_parse_with_pdfplumber" -> {"pdfplumber"}
      [] engine = "_parse_with_tesseract" -> {"pytesseract", "pdf2image"}
      [] engine = "_parse_with_easyocr" -> {"easyocr", "pdf2image"}
      [] engine = "_parse_with_docling" -> {"docling"}
      [] engine = "_parse_with_unstructured" -> {"unstructured"}
      [] engine = "_parse_word" -> {"docx"}
      [] engine = "_parse_powerpoint" -> {"pptx"}
      [] engine = "_parse_excel" -> {"openpyxl"}
      [] engine = "_parse_text" -> {}

\* pdf_analysis: None, and a result without the key.
NoAnalysis == [None |-> TRUE]

Ev(engine, end) == [engine |-> engine, end |-> end]
\* `open` counts the document handles the call opened and did not close.
Done(me, doc) ==
    [state |-> "returned", value |-> doc, events |-> <<Ev(me, "returned")>>,
     open |-> 0]
Fail(me, error) ==
    [state |-> "raised", error |-> error, events |-> <<Ev(me, error)>>,
     open |-> 0]
\* The outcome r of a call that left n more handles open.
Holding(r, n) == [r EXCEPT !.open = @ + n]
\* The outcome r of a call made after `me` ended with `end`.
Then(me, end, r) == [r EXCEPT !.events = <<Ev(me, end)>> \o @]

\* A string is a sequence of atoms: a newline, a heading line "## Page 3",
\* the text a library extracted from one page, or the text a library made of
\* the whole document.
Newline == [part |-> "newline", by |-> "", n |-> 0, of |-> <<>>]
Heading(label, n) == [part |-> "heading", by |-> label, n |-> n, of |-> <<>>]
PageText(by, page) == <<[part |-> "text", by |-> by, n |-> 0, of |-> <<page>>]>>
DocumentText(by, f) == <<[part |-> "document", by |-> by, n |-> 0, of |-> f.pages]>>

\* sep.join(parts)
RECURSIVE Join(_, _)
Join(parts, sep) ==
    IF parts = <<>> THEN <<>>
    ELSE IF Len(parts) = 1 THEN parts[1]
    ELSE parts[1] \o sep \o Join(Tail(parts), sep)

\* f"## Page {page_num + 1}\n\n{text}\n"
SectionWithoutHeading(label, n, text) == text \o <<Newline>>
Section(label, n, text) == <<Heading(label, n), Newline, Newline>> \o text \o <<Newline>>

\* The pages list of a loop over range(len(texts)): page_num is i - 1 and
\* page_number is page_num + 1.
PageListFromZero(texts) ==
    [i \in 1..Len(texts) |-> [page_number |-> i - 1, content |-> texts[i]]]
PageList(texts) ==
    [i \in 1..Len(texts) |-> [page_number |-> (i - 1) + 1, content |-> texts[i]]]

\* content.append(section) in the same loop, then '\n'.join(content).
Sections(label, texts) ==
    Join([i \in 1..Len(texts) |-> Section(label, (i - 1) + 1, texts[i])], <<Newline>>)

\* The text the library `by` extracts from each page of the file.
PageTexts(by, f) == [i \in 1..Len(f.pages) |-> PageText(by, f.pages[i])]

Document(tool_used, content, pages, pdf_analysis) ==
    [tool_used |-> tool_used,
     content |-> content,
     pages |-> pages,
     pdf_analysis |-> pdf_analysis,
     errors |-> FALSE]

\* An engine that appends a page and a "## Page N" section per page.
PagedDocument(tool_used, by, f, pdf_analysis) ==
    Document(tool_used, Sections("Page", PageTexts(by, f)),
             PageList(PageTexts(by, f)), pdf_analysis)

\* pdf_analysis = None; if self.detect_scanned: self._analyze_pdf(pdf_path)
PdfAnalysis(f, miss) ==
    IF detect_scanned THEN _analyze_pdf(f, miss).value ELSE NoAnalysis
\* ... and the handles that call of _analyze_pdf leaves open.
AnalysisHandles(f, miss) ==
    IF detect_scanned THEN AnalyzeTry(f, miss).open ELSE 0

\* parsers.py:225-265.  The import and fitz.open are outside any try.
_parse_with_pymupdf(f, miss, lib) ==
    LET me == "_parse_with_pymupdf"
        doc == FitzOpen(f, miss)
    IN  IF doc.state = "raised"
        THEN Fail(me, IF doc.error = "ImportError" THEN "ImportError" ELSE "Exception")
        ELSE IF Unread(f, Len(doc.value))
        THEN Holding(Fail(me, "Exception"), 1)
        ELSE Holding(Done(me, PagedDocument("PyMuPDF", "fitz", f, PdfAnalysis(f, miss))),
                     AnalysisHandles(f, miss))

\* parsers.py:267-327.
_parse_with_pymupdf4llm(f, miss, lib) ==
    LET me == "_parse_with_pymupdf4llm"
    IN  IF Imports(me) \cap miss # {}
        THEN Then(me, "ImportError", _parse_with_pymupdf(f, miss, lib))
        ELSE IF lib = "raises" \/ f.state # "readable"
        THEN Fail(me, "Exception")
        ELSE Holding(Done(me, Document("PyMuPDF4LLM", DocumentText("pymupdf4llm", f),
                                       PageList(PageTexts("fitz", f)),
                                       PdfAnalysis(f, miss))),
                     AnalysisHandles(f, miss))

\* parsers.py:329-384.
PdfplumberNoFallback(f, miss, lib) ==
    LET me == "_parse_with_pdfplumber"
    IN  IF Imports(me) \cap miss # {}
        THEN Fail(me, "ImportError")
        ELSE IF lib = "raises"
        THEN Fail(me, "Exception")
        ELSE Holding(Done(me, PagedDocument("pdfplumber", "pdfplumber", f,
                                            PdfAnalysis(f, miss))),
                     AnalysisHandles(f, miss))
_parse_with_pdfplumber(f, miss, lib) ==
    LET me == "_parse_with_pdfplumber"
    IN  IF Imports(me) \cap miss # {}
        THEN Then(me, "ImportError", _parse_with_pymupdf(f, miss, lib))
        ELSE IF lib = "raises"
        THEN Fail(me, "Exception")
        ELSE Holding(Done(me, PagedDocument("pdfplumber", "pdfplumber", f,
                                            PdfAnalysis(f, miss))),
                     AnalysisHandles(f, miss))

\* parsers.py:386-423.  except ImportError as e: raise ImportError(...)
_parse_with_tesseract(f, miss, lib) ==
    LET me == "_parse_with_tesseract"
    IN  IF Imports(me) \cap miss # {}
        THEN Fail(me, "ImportError")
        ELSE IF lib = "raises"
        THEN Fail(me, "Exception")
        ELSE Done(me, PagedDocument("Tesseract OCR", "pytesseract", f,
                                    [type |-> "Scanned", total_pages |-> Len(f.pages)]))

\* parsers.py:425-470.
_parse_with_easyocr(f, miss, lib) ==
    LET me == "_parse_with_easyocr"
    IN  IF Imports(me) \cap miss # {}
        THEN Fail(me, "ImportError")
        ELSE IF lib = "raises"
        THEN Fail(me, "Exception")
        ELSE Done(me, PagedDocument("EasyOCR", "easyocr", f,
                                    [type |-> "Scanned", total_pages |-> Len(f.pages)]))

\* parsers.py:472-540.  except ImportError and except Exception both fall
\* back; a FAILURE status returns a Document that carries the errors.
DoclingNoCatch(f, miss, lib) ==
    LET me == "_parse_with_docling"
    IN  IF Imports(me) \cap miss # {}
        THEN Then(me, "ImportError", _parse_with_pymupdf(f, miss, lib))
        ELSE IF lib = "raises"
        THEN Fail(me, "Exception")
        ELSE IF lib = "failure"
        THEN Done(me, [Document("Docling", <<>>, <<>>, NoAnalysis) EXCEPT !.errors = TRUE])
        ELSE Done(me, Document("Docling", DocumentText("docling", f),
                           PageList(PageTexts("docling", f)), NoAnalysis))
_parse_with_docling(f, miss, lib) ==
    LET me == "_parse_with_docling"
    IN  IF Imports(me) \cap miss # {}
        THEN Then(me, "ImportError", _parse_with_pymupdf(f, miss, lib))
        ELSE IF lib = "raises"
        THEN Then(me, "Exception", _parse_with_pymupdf(f, miss, lib))
        ELSE IF lib = "failure"
        THEN Done(me, [Document("Docling", <<>>, <<>>, NoAnalysis) EXCEPT !.errors = TRUE])
        ELSE Done(me, Document("Docling", DocumentText("docling", f),
                           PageList(PageTexts("docling", f)), NoAnalysis))

\* parsers.py:543-561.
UnstructuredViaDocling(f, miss, lib) ==
    LET me == "_parse_with_unstructured"
    IN  IF Imports(me) \cap miss # {}
        THEN Then(me, "ImportError", _parse_with_docling(f, miss, lib))
        ELSE IF lib = "raises"
        THEN Fail(me, "Exception")
        ELSE Done(me, Document("Unstructured", DocumentText("unstructured", f), <<>>, NoAnalysis))
_parse_with_unstructured(f, miss, lib) ==
    LET me == "_parse_with_unstructured"
    IN  IF Imports(me) \cap miss # {}
        THEN Then(me, "ImportError", _parse_with_pymupdf(f, miss, lib))
        ELSE IF lib = "raises"
        THEN Fail(me, "Exception")
        ELSE Done(me, Document("Unstructured", DocumentText("unstructured", f), <<>>, NoAnalysis))

\* parsers.py:563-594.  except ImportError: raise ImportError(...)
WordWithFallback(f, miss, lib) ==
    LET me == "_parse_word"
    IN  IF Imports(me) \cap miss # {}
        THEN Then(me, "ImportError", _parse_with_pymupdf(f, miss, lib))
        ELSE IF lib = "raises"
        THEN Fail(me, "Exception")
        ELSE Done(me, Document("python-docx", DocumentText("docx", f),
                           PageList(<<DocumentText("docx", f)>>), NoAnalysis))
_parse_word(f, miss, lib) ==
    LET me == "_parse_word"
    IN  IF Imports(me) \cap miss # {}
        THEN Fail(me, "ImportError")
        ELSE IF lib = "raises"
        THEN Fail(me, "Exception")
        ELSE Done(me, Document("python-docx", DocumentText("docx", f),
                           PageList(<<DocumentText("docx", f)>>), NoAnalysis))

\* parsers.py:596-629.
_parse_powerpoint(f, miss, lib) ==
    LET me == "_parse_powerpoint"
    IN  IF Imports(me) \cap miss # {}
        THEN Fail(me, "ImportError")
        ELSE IF lib = "raises"
        THEN Fail(me, "Exception")
        ELSE Done(me, Document("python-pptx", Sections("Slide", PageTexts("pptx", f)),
                           PageList(PageTexts("pptx", f)), NoAnalysis))

\* parsers.py:631-658.
_parse_excel(f, miss, lib) ==
    LET me == "_parse_excel"
    IN  IF Imports(me) \cap miss # {}
        THEN Fail(me, "ImportError")
        ELSE IF lib = "raises"
        THEN Fail(me, "Exception")
        ELSE Done(me, Document("openpyxl", DocumentText("openpyxl", f), <<>>, NoAnalysis))

\* parsers.py:660-671.  No import; open() or read() may raise.
_parse_text(f, miss, lib) ==
    LET me == "_parse_text"
    IN  IF lib = "raises"
        THEN Fail(me, "Exception")
        ELSE Done(me, Document("Built-in", DocumentText("read", f),
                           PageList(<<DocumentText("read", f)>>), NoAnalysis))

\* results = parser_method(document_path)
parser_method(method, f, miss, lib) ==
    CASE method = "_parse_with_pymupdf" -> _parse_with_pymupdf(f, miss, lib)
      [] method = "_parse_with_pymupdf4llm" -> _parse_with_pymupdf4llm(f, miss, lib)
      [] method = "_parse_with_docling" -> _parse_with_docling(f, miss, lib)
      [] method = "_parse_with_unstructured" -> _parse_with_unstructured(f, miss, lib)
      [] method = "_parse_with_pdfplumber" -> _parse_with_pdfplumber(f, miss, lib)
      [] method = "_parse_word" -> _parse_word(f, miss, lib)
      [] method = "_parse_powerpoint" -> _parse_powerpoint(f, miss, lib)
      [] method = "_parse_excel" -> _parse_excel(f, miss, lib)
      [] method = "_parse_with_tesseract" -> _parse_with_tesseract(f, miss, lib)
      [] method = "_parse_with_easyocr" -> _parse_with_easyocr(f, miss, lib)
      [] method = "_parse_text" -> _parse_text(f, miss, lib)

----------------------------------------------------------------------------
(* parse, parsers.py:47-84, for a local path.                              *)

\* `if self.tool:` is false for None and for the empty string.
Truthy(t) == t # None /\ t # ""

SelectAuto(doc_type, f, miss) == _auto_select_parser(doc_type, f, miss)
SelectToolForPdfOnly(doc_type, f, miss) ==
    IF Truthy(tool) /\ doc_type = "pdf"
    THEN _get_parser_method(tool)
    ELSE _auto_select_parser(doc_type, f, miss)
Select(doc_type, f, miss) ==
    IF Truthy(tool)
    THEN _get_parser_method(tool)
    ELSE _auto_select_parser(doc_type, f, miss)

\* The handles left open by the quick scan detection of a selection.
SelectHandles(sel, f, miss) == IF sel.scans > 0 THEN ScanTry(f, miss).open ELSE 0

ParseSelectFirst(f, miss, lib) ==
    LET doc_type == _get_document_type(f.ext)
        sel == Select(doc_type, f, miss)
    IN  IF sel.state = "raised"
        THEN [state |-> "raised", error |-> sel.error,
              events |-> <<>>, scans |-> sel.scans,
              open |-> SelectHandles(sel, f, miss)]
        ELSE IF f.state = "missing"
        THEN [state |-> "raised", error |-> "FileNotFoundError",
              events |-> <<>>, scans |-> sel.scans,
              open |-> SelectHandles(sel, f, miss)]
        ELSE LET results == parser_method(sel.value, f, miss, lib)
             IN  IF results.state = "raised"
                 THEN [state |-> "raised", error |-> results.error,
                       events |-> results.events, scans |-> sel.scans,
                       open |-> SelectHandles(sel, f, miss) + results.open]
                 ELSE [state |-> "returned",
                       value |-> [tool_used |-> results.value.tool_used,
                                  content |-> results.value.content,
                                  pages |-> results.value.pages,
                                  pdf_analysis |-> results.value.pdf_analysis,
                                  errors |-> results.value.errors,
                                  file_type |-> doc_type],
                       events |-> results.events, scans |-> sel.scans,
                       open |-> SelectHandles(sel, f, miss) + results.open]
parse(f, miss, lib) ==
    IF f.state = "missing"
    THEN [state |-> "raised", error |-> "FileNotFoundError",
          events |-> <<>>, scans |-> 0, open |-> 0]
    ELSE LET doc_type == _get_document_type(f.ext)
             sel == Select(doc_type, f, miss)
         IN  IF sel.state = "raised"
             THEN [state |-> "raised", error |-> sel.error,
                   events |-> <<>>, scans |-> sel.scans,
                   open |-> SelectHandles(sel, f, miss)]
             ELSE LET results == parser_method(sel.value, f, miss, lib)
                  IN  IF results.state = "raised"
                      THEN [state |-> "raised", error |-> results.error,
                            events |-> results.events, scans |-> sel.scans,
                            open |-> SelectHandles(sel, f, miss) + results.open]
                      ELSE [state |-> "returned",
                            value |-> [tool_used |-> results.value.tool_used,
                                       content |-> results.value.content,
                                       pages |-> results.value.pages,
                                       pdf_analysis |-> results.value.pdf_analysis,
                                       errors |-> results.value.errors,
                                       file_type |-> doc_type],
                            events |-> results.events, scans |-> sel.scans,
                            open |-> SelectHandles(sel, f, miss) + results.open]

----------------------------------------------------------------------------
(* The RAG export, app.py:18-131.  A text is a sequence of characters.     *)

\* def chunk_text(text, max_chars=900, overlap=120)
DEFAULT_MAX_CHARS == 900
DEFAULT_OVERLAP == 120

Max(a, b) == IF a > b THEN a ELSE b

\* The characters str.strip() removes.
IsSpace(c) == c \in {" ", "\t", "\n", "\r"}

\* s.strip()
Strip(s) ==
    LET kept == {i \in 1..Len(s) : ~IsSpace(s[i])}
    IN  IF kept = {} THEN <<>>
        ELSE SubSeq(s, CHOOSE i \in kept : \A j \in kept : i <= j,
                       CHOOSE i \in kept : \A j \in kept : i >= j)

\* s.replace(old, new) for single characters.
Replace(s, old, new) == [i \in 1..Len(s) |-> IF s[i] = old THEN new ELSE s[i]]

\* The length of the longest prefix of s made of characters of class.
RECURSIVE RunLength(_, _)
RunLength(s, class) ==
    IF s = <<>> \/ s[1] \notin class THEN 0 ELSE 1 + RunLength(Tail(s), class)

\* re.sub(r"[class]{atleast,}", repl, s): every maximal run of at least
\* `atleast` characters of class is replaced by repl.
RECURSIVE Sub(_, _, _, _)
Sub(s, class, atleast, repl) ==
    IF s = <<>> THEN <<>>
    ELSE LET k == RunLength(s, class)
         IN  IF k >= atleast
             THEN repl \o Sub(SubSeq(s, k + 1, Len(s)), class, atleast, repl)
             ELSE <<s[1]>> \o Sub(Tail(s), class, atleast, repl)

\* app.py:23-28.
CleanTextNoCollapse(s) == Strip(Replace(s, "\r", "\n"))
_clean_text(s) ==
    Strip(Sub(Sub(Replace(s, "\r", "\n"), {"\n"}, 3, <<"\n", "\n">>),
              {" ", "\t"}, 2, <<" ">>))

\* s[start:end], positions counted from 0.
Slice(s, start, end) == SubSeq(s, start + 1, end)

\* chunk.rfind("\n\n"): the last position of a paragraph break, or -1.
RFind(chunk) ==
    LET found == {i \in 0..(Len(chunk) - 2) : Slice(chunk, i, i + 2) = <<"\n", "\n">>}
    IN  IF found = {} THEN -1 ELSE CHOOSE i \in found : \A j \in found : i >= j

\* The end of the window that starts at start: max_chars further, or at
\* the last paragraph break of the window when the window stops before the
\* end of the text and the break is beyond its half.
WindowEndAnyCut(s, start, max_chars) ==
    LET n == Len(s)
        end == Min(n, start + max_chars)
        cut == RFind(Slice(s, start, end))
    IN  IF end < n /\ cut > 0 THEN start + cut ELSE end
WindowEnd(s, start, max_chars) ==
    LET n == Len(s)
        end == Min(n, start + max_chars)
        cut == RFind(Slice(s, start, end))
    IN  IF end < n /\ 2 * cut > max_chars THEN start + cut ELSE end

\* start = max(0, end - overlap)
NextStartPastEnd(end, overlap) == end + 1
NextStart(end, overlap) == Max(0, end - overlap)

\* return [c for c in chunks if c]
KeepAll(chunks) == chunks
NonEmpty(chunks) == SelectSeq(chunks, LAMBDA c : c # <<>>)

\* The while loop of chunk_text from position start on.  `windows` lists the
\* windows scanned so far.  The loop is left with `turns` iterations to
\* make: each iteration starts at one of the Len(s) positions, so an
\* iteration beyond Len(s) repeats an earlier one and the loop never ends.
RECURSIVE Scan(_, _, _, _, _, _, _)
Scan(s, max_chars, overlap, start, chunks, windows, turns) ==
    IF ~(start < Len(s))
    THEN [state |-> "returned", value |-> NonEmpty(chunks), windows |-> windows]
    ELSE IF turns = 0
    THEN [state |-> "diverges", windows |-> windows]
    ELSE LET end == WindowEnd(s, start, max_chars)
             chunk == Slice(s, start, end)
             chunks_ == Append(chunks, Strip(chunk))
             windows_ == Append(windows, [start |-> start, end |-> end])
         IN  IF end = Len(s)
             THEN [state |-> "returned", value |-> NonEmpty(chunks_),
                   windows |-> windows_]
             ELSE Scan(s, max_chars, overlap, NextStart(end, overlap),
                       chunks_, windows_, turns - 1)

\* app.py:31-60.
chunk_text(t, max_chars, overlap) ==
    LET s == _clean_text(t)
    IN  IF s = <<>>
        THEN [state |-> "returned", value |-> <<>>, windows |-> <<>>]
        ELSE Scan(s, max_chars, overlap, 0, <<>>, <<>>, Len(s))

\* The entries build_rag_json appends for the chunks of one page, and for
\* the chunks of the content (whose metadata has no page).
PageEntries(page_num, page_chunks) ==
    [k \in 1..Len(page_chunks) |->
        [text |-> page_chunks[k], page |-> page_num, chunk_index |-> k - 1]]
ContentEntries(doc_chunks) ==
    [k \in 1..Len(doc_chunks) |-> [text |-> doc_chunks[k], chunk_index |-> k - 1]]

\* for p in pages: ... (app.py:88-109), `out` being the chunks so far.
RECURSIVE ChunkPages(_, _, _, _)
ChunkPages(pages, chunk_size, overlap, out) ==
    IF pages = <<>> THEN [state |-> "returned", value |-> out]
    ELSE LET p == Head(pages)
             page_text == _clean_text(p.content)
             page_chunks == chunk_text(page_text, chunk_size, overlap)
         IN  IF page_text = <<>>
             THEN ChunkPages(Tail(pages), chunk_size, overlap, out)
             ELSE IF page_chunks.state = "diverges"
             THEN [state |-> "diverges"]
             ELSE ChunkPages(Tail(pages), chunk_size, overlap,
                             out \o PageEntries(p.page_number, page_chunks.value))

\* app.py:63-131: the chunks array of the JSON.
BuildRagJsonFromContent(r, chunk_size, overlap) ==
    LET doc_chunks == chunk_text(_clean_text(r.content), chunk_size, overlap)
    IN  IF doc_chunks.state = "diverges"
        THEN [state |-> "diverges"]
        ELSE [state |-> "returned", value |-> ContentEntries(doc_chunks.value)]
build_rag_json(r, chunk_size, overlap) ==
    IF r.pages # <<>>
    THEN ChunkPages(r.pages, chunk_size, overlap, <<>>)
    ELSE LET doc_chunks == chunk_text(_clean_text(r.content), chunk_size, overlap)
         IN  IF doc_chunks.state = "diverges"
             THEN [state |-> "diverges"]
             ELSE [state |-> "returned", value |-> ContentEntries(doc_chunks.value)]

\* hashlib.sha1(s).hexdigest()[:16]: a fixed function of s about which the
\* code knows nothing else.  `memo` holds the digests of the strings hashed
\* so far; the digest of a string not hashed before is d.
Sha1(memo, s, d) ==
    IF \E e \in memo : e.input = s
    THEN memo
    ELSE memo \cup {[input |-> s, digest |-> d]}
Hexdigest16(memo, s) == (CHOOSE e \in memo : e.input = s).digest

\* app.py:18-20.  s = "|".join(parts)
StableIdOfCallCount(parts, memo) == Cardinality(memo) % 2
_stable_id(parts, memo) == Hexdigest16(memo, Join(parts, <<"|">>))

----------------------------------------------------------------------------
(* The inputs.                                                             *)

Tools == {None, "bogus"} \cup DOMAIN method_map

Exts == {"pdf", "docx", "pptx", "xlsx", "txt", "zip"}

Installations == {m \in SUBSET Libs : Cardinality(m) <= MaxMissing}

ScanPages == [text_len : ScanTextLens, n_images : {0}]
Pages == [text_len : TextLens, n_images : ImageCounts]
\* For parse: a page of a scan and a page of digital text.
ParsePages == {[text_len |-> 0, n_images |-> 1], [text_len |-> 51, n_images |-> 0]}

ScanPdfs == {ReadablePdf(p) : p \in SeqsUpTo(ScanPages, MaxScanPages)}
Pdfs == {MissingPdf, UnreadablePdf} \cup {DamagedPdf(<<p>>) : p \in Pages} \cup {ReadablePdf(p) : p \in SeqsUpTo(Pages, MaxPages)}
Files ==
    {[ext |-> e, state |-> s, pages |-> <<>>] : e \in Exts, s \in {"missing", "unreadable"}}
    \cup {[ext |-> e, state |-> "damaged", pages |-> <<p>>] : e \in Exts, p \in ParsePages}
    \cup {[ext |-> e, state |-> "readable", pages |-> p] :
            e \in Exts, p \in SeqsUpTo(ParsePages, MaxParsePages)}

NoCall == [state |-> "pending"]

\* Texts of a letter, spaces and line breaks.
Chars == {"a", " ", "\n"}
Texts == SeqsUpTo(Chars, MaxTextLen)

\* Page contents: empty, blank, one of two chunks, one to trim.
PageContents == {<<>>, <<" ">>, <<"a", "a">>, <<" ", "a", "\n">>}

\* The parsed results whose content is t: without pages, and, for a short
\* content, with pages numbered from 1.
ParsedResults(t) ==
    {[pages |-> <<>>, content |-> t]}
    \cup {[pages |-> PageList(c), content |-> t] :
            c \in IF Len(t) <= 1 THEN SeqsUpTo(PageContents, MaxRagPages) ELSE {}}

\* The digests a SHA-1 can be cut down to.
Digests == 0..MaxDigest

\* The parts build_rag_json hands to _stable_id: the file name, the page
\* number, the chunk index and the first characters of the chunk.
FileNames == {<<"f">>, <<"f", "|", "1">>}
PageTags == {<<"0">>, <<"1">>}
ChunkIndexes == {<<"0">>}
Prefixes == {<<"t">>, <<"0", "|", "t">>}
IdParts ==
    {<<file_name, page, i, ch>> :
        file_name \in FileNames, page \in PageTags, i \in ChunkIndexes, ch \in Prefixes}

----------------------------------------------------------------------------
(* The tables of a page as Markdown, parsers.py:341-354.  A string is the  *)
(* sequence of its pieces; the empty string is the empty sequence.         *)

\* A cell pdfplumber could not fill, and a cell with a text.
NoneCell == [kind |-> "None", text |-> <<>>]
TextCell(t) == [kind |-> "str", text |-> t]

\* str(cell)
Str(cell) == IF cell.kind = "None" THEN <<"None">> ELSE cell.text

\* str(cell) if cell else ""
StrOrEmpty(cell) == IF cell.kind = "None" \/ cell.text = <<>> THEN <<>> ELSE Str(cell)

\* str(table_idx + 1)
Decimal(n) == <<"0", "1", "2", "3", "4", "5", "6", "7", "8", "9">>[n + 1]

\* "| " + " | ".join(cells) + " |\n"
PipeRow(cells) == <<"| ">> \o Join(cells, <<" | ">>) \o <<" |", "\n">>

\* "|" + "|".join(["---"] * len(table[0])) + "|\n"
SeparatorRow(n) == <<"|">> \o Join([i \in 1..n |-> <<"---">>], <<"|">>) \o <<"|", "\n">>

\* The rows written for a table whose first row is not empty.
TableRows(table) ==
    PipeRow([i \in 1..Len(table[1]) |-> Str(table[1][i])])
    \o SeparatorRow(Len(table[1]))
    \o Join([r \in 1..(Len(table) - 1) |->
                PipeRow([i \in 1..Len(table[r + 1]) |-> StrOrEmpty(table[r + 1][i])])],
            <<>>)

\* What one table adds to table_md, table_idx counted from 0.
TableMd(table_idx, table) ==
    IF table = <<>> THEN <<>>
    ELSE <<"\n", "**Table ", Decimal(table_idx + 1), ":**", "\n", "\n">>
         \o (IF table[1] # <<>> THEN TableRows(table) ELSE <<>>)
         \o <<"\n">>

\* for table_idx, table in enumerate(tables): ...
TablesMd(tables) == Join([k \in 1..Len(tables) |-> TableMd(k - 1, tables[k])], <<>>)

\* Tables of up to MaxRows rows of up to MaxCols cells, alone on their page
\* or after a table without rows.
Cells == {NoneCell, TextCell(<<>>), TextCell(<<"x">>)}
Rows == SeqsUpTo(Cells, MaxCols)
Tables == SeqsUpTo(Rows, MaxRows)
PageTables == {<<t>> : t \in Tables} \cup {<<<<>>, t>> : t \in Tables}

----------------------------------------------------------------------------
(* The images of a PDF, parsers.py:673-753.                                *)

\* MIN_IMAGE_SIZE = (50, 50)
MIN_IMAGE_WIDTH == 50
MIN_IMAGE_HEIGHT == 50

\* The names bound at module level are those of parsers.py:1-12: fitz is
\* imported inside other methods only, so that evaluating fitz.Matrix in
\* _extract_images_pymupdf raises NameError.
FitzBound == FALSE

\* pil_image.width < MIN_IMAGE_SIZE[0] or pil_image.height < MIN_IMAGE_SIZE[1]
AnySize(width, height) == FALSE
TooSmall(width, height) == width < MIN_IMAGE_WIDTH \/ height < MIN_IMAGE_HEIGHT

\* The dictionary appended for an image; xref is not part of it and is kept
\* to tell which object the entry came from.
ImageEntry(ref, width, height, path) ==
    [page |-> ref.page, index |-> ref.index, width |-> width, height |-> height,
     path |-> path, xref |-> ref.xref]

\* The inner try of the fallback: a region of the page rendered as an
\* image, stored if it is large enough; any exception is dropped.  For an
\* object PIL cannot open, width and height are those of the rendering.
Rendering(ref, object) ==
    IF ~FitzBound THEN <<>>
    ELSE IF object.width >= MIN_IMAGE_WIDTH /\ object.height >= MIN_IMAGE_HEIGHT
    THEN <<ImageEntry(ref, object.width, object.height, "rendering")>>
    ELSE <<>>

\* The two loops over pages and over the images of a page, as one pass over
\* the references in that order.
ImageRefs(lists) ==
    Join([p \in 1..Len(lists) |->
            [k \in 1..Len(lists[p]) |-> [page |-> p, index |-> k - 1, xref |-> lists[p][k]]]],
         <<>>)

RECURSIVE ExtractLoop(_, _, _, _)
ExtractLoop(refs, objects, images, extracted_xrefs) ==
    IF refs = <<>> THEN images
    ELSE LET ref == Head(refs)
             object == objects[ref.xref]
             seen == extracted_xrefs \cup {ref.xref}
         IN  IF ref.xref \in extracted_xrefs
             THEN ExtractLoop(Tail(refs), objects, images, extracted_xrefs)
             ELSE IF object.pil = "unextractable"
             THEN ExtractLoop(Tail(refs), objects, images, seen)
             ELSE IF object.pil = "unreadable"
             THEN ExtractLoop(Tail(refs), objects, images \o Rendering(ref, object), seen)
             ELSE IF TooSmall(object.width, object.height)
             THEN ExtractLoop(Tail(refs), objects, images, seen)
             ELSE ExtractLoop(Tail(refs), objects,
                              Append(images, ImageEntry(ref, object.width, object.height,
                                                        "decoding")),
                              seen)

\* d is the document: the image objects by xref, the xrefs each page
\* refers to, and whether PIL can be imported.
_extract_images_pymupdf(d) ==
    IF ~d.pil THEN Raised("ImportError")
    ELSE Returned(ExtractLoop(ImageRefs(d.lists), d.objects, <<>>, {}))

\* Two image objects of sizes around the minimum, referred to by up to
\* MaxImagePages pages.
Xrefs == {1, 2}
ImageSizes == {MIN_IMAGE_WIDTH - 1, MIN_IMAGE_WIDTH}
ImageObjects ==
    [width : ImageSizes, height : ImageSizes, pil : {"opens", "unreadable", "unextractable"}]
PageImageLists == {<<>>, <<1>>, <<2>>, <<1, 2>>, <<1, 1>>, <<2, 1>>}
ImageDocuments ==
    [lists : SeqsUpTo(PageImageLists, MaxImagePages),
     objects : [Xrefs -> ImageObjects],
     pil : BOOLEAN]
NoImages == [lists |-> <<>>, objects |-> <<>>, pil |-> TRUE]

NoExtraction ==
    /\ given_tables = <<>>
    /\ table_md = Pending
    /\ given_image_lists = NoImages
    /\ extracted = Pending

NoIds ==
    /\ digests = {}
    /\ issued = {}
    /\ earlier = "none"

\* No export under way: the defaults of chunk_text and nothing parsed yet.
NoExport ==
    /\ given_text = <<>>
    /\ given_max_chars = DEFAULT_MAX_CHARS
    /\ given_overlap = DEFAULT_OVERLAP
    /\ chunked = Pending
    /\ parsed = [pages |-> <<>>, content |-> <<>>]
    /\ rag = Pending

----------------------------------------------------------------------------
(* The operations.                                                         *)

IsScannedPdf ==
    /\ scanned' = _is_scanned_pdf(pdf, missing)
    /\ UNCHANGED <<parser, missing, pdf, analysis, selected, call, export, ids, earlier, extraction>>

AnalyzePdf ==
    /\ analysis' = _analyze_pdf(pdf, missing)
    /\ UNCHANGED <<parser, missing, pdf, scanned, selected, call, export, ids, earlier, extraction>>

AutoSelectParser ==
    \E doc_type \in DocTypes \cup {"unknown"} :
        /\ selected' = [doc_type |-> doc_type,
                        ret |-> SelectAuto(doc_type, pdf, missing)]
        /\ UNCHANGED <<parser, missing, pdf, scanned, analysis, call, export, ids, earlier, extraction>>

\* results = parser.parse(doc_path), once the previous results are dropped.
Parse ==
    /\ call = NoCall
    /\ \E f \in Files, lib \in LibResponses :
           call' = [file |-> f, ret |-> parse(f, missing, lib)]
    /\ UNCHANGED <<parser, missing, pdf, scanned, analysis, selected, export, ids, earlier, extraction>>

\* The caller is done with the results of a call (the next iteration of a
\* batch loop overwrites them); the parser is ready for the next call.
Discard ==
    /\ call # NoCall
    /\ call' = NoCall
    /\ UNCHANGED <<parser, missing, pdf, scanned, analysis, selected, export, ids, earlier, extraction>>

\* DocumentParser(tool, detect_scanned, extract_images, ocr_lang) on an
\* installation.
Init ==
    /\ tool \in Tools
    /\ detect_scanned \in BOOLEAN
    /\ extract_images \in BOOLEAN
    /\ ocr_lang = "eng"
    /\ missing \in Installations
    /\ pdf = MissingPdf
    /\ scanned = Pending
    /\ analysis = Pending
    /\ selected = Pending
    /\ call = NoCall
    /\ NoExport
    /\ NoIds
    /\ NoExtraction

Next == Parse \/ Discard

\* How a parse call ended, for the calls after it.
Kind(c) ==
    IF c = NoCall THEN "none"
    ELSE IF c.ret.state = "raised" THEN "failed"
    ELSE IF Len(c.ret.events) > 1 THEN "fell back"
    ELSE "succeeded"

\* The documents of a batch: PDFs that can and cannot be read, a Word file,
\* a file of no supported type and a path that does not exist.
BatchFiles ==
    {f \in Files : \/ f.ext \in {"pdf", "docx"} /\ f.state \in {"unreadable", "damaged"}
                   \/ f.ext \in {"pdf", "docx", "zip"} /\ Len(f.pages) = 1
                   \/ f.ext = "pdf" /\ f.state = "missing"}

\* for filepath in files: results = parser.parse(str(filepath)): the next
\* call of a batch on one parser, whatever the call before it did.
BatchParseSticky ==
    /\ \E f \in BatchFiles, lib \in LibResponses :
           /\ call' = [file |-> f, ret |-> parse(f, missing, lib)]
           /\ tool' = IF Len(call'.ret.events) > 1 THEN "pymupdf" ELSE tool
    /\ earlier' = Kind(call)
    /\ UNCHANGED <<detect_scanned, extract_images, ocr_lang, missing, pdf, scanned,
                   analysis, selected, export, digests, issued, extraction>>
BatchParse ==
    /\ \E f \in BatchFiles, lib \in LibResponses :
           call' = [file |-> f, ret |-> parse(f, missing, lib)]
    /\ earlier' = Kind(call)
    /\ UNCHANGED <<parser, missing, pdf, scanned, analysis, selected, export,
                   digests, issued, extraction>>

\* The batch runs where every library is installed or where the engines
\* that fall back to pymupdf are not.
InitBatch ==
    /\ Init
    /\ missing \subseteq {"docling", "pdfplumber"}

NextBatch == BatchParse

SpecBatch == InitBatch /\ [][NextBatch]_vars

\* table_md of one page of _parse_with_pdfplumber.
ExtractTables ==
    /\ table_md' = TablesMd(given_tables)
    /\ UNCHANGED <<parsing, export, ids, earlier, given_tables, given_image_lists,
                   extracted>>

InitTables ==
    /\ tool = "pdfplumber"
    /\ detect_scanned = FALSE
    /\ extract_images = FALSE
    /\ ocr_lang = "eng"
    /\ missing = {}
    /\ pdf = MissingPdf
    /\ scanned = Pending
    /\ analysis = Pending
    /\ selected = Pending
    /\ call = NoCall
    /\ NoExport
    /\ NoIds
    /\ given_tables \in PageTables
    /\ table_md = Pending
    /\ given_image_lists = NoImages
    /\ extracted = Pending

NextTables == ExtractTables

SpecTables == InitTables /\ [][NextTables]_vars

\* images = self._extract_images_pymupdf(doc)
ExtractImages ==
    /\ extracted' = _extract_images_pymupdf(given_image_lists)
    /\ UNCHANGED <<parsing, export, ids, earlier, given_tables, table_md,
                   given_image_lists>>

InitImages ==
    /\ tool = "pymupdf"
    /\ detect_scanned = FALSE
    /\ extract_images = TRUE
    /\ ocr_lang = "eng"
    /\ missing = {}
    /\ pdf = MissingPdf
    /\ scanned = Pending
    /\ analysis = Pending
    /\ selected = Pending
    /\ call = NoCall
    /\ NoExport
    /\ NoIds
    /\ given_tables = <<>>
    /\ table_md = Pending
    /\ given_image_lists \in ImageDocuments
    /\ extracted = Pending

NextImages == ExtractImages

SpecImages == InitImages /\ [][NextImages]_vars

\* chunks = chunk_text(text, max_chars, overlap)
ChunkText ==
    /\ chunked' = chunk_text(given_text, given_max_chars, given_overlap)
    /\ UNCHANGED <<ids, earlier, extraction, parsing, given_text, given_max_chars, given_overlap, parsed, rag>>

\* rag_json = build_rag_json(results, document_path, chunk_size, overlap)
BuildRagJson ==
    /\ rag' = build_rag_json(parsed, given_max_chars, given_overlap)
    /\ UNCHANGED <<ids, earlier, extraction, parsing, given_text, given_max_chars, given_overlap, parsed, chunked>>

\* The export of a text, directly and as the content of parsed results.
InitChunk ==
    /\ tool = None
    /\ detect_scanned = TRUE
    /\ extract_images = FALSE
    /\ ocr_lang = "eng"
    /\ missing = {}
    /\ pdf = MissingPdf
    /\ scanned = Pending
    /\ analysis = Pending
    /\ selected = Pending
    /\ call = NoCall
    /\ given_text \in Texts
    /\ given_max_chars \in 1..MaxChars
    /\ given_overlap \in 0..MaxOverlap
    /\ chunked = Pending
    /\ parsed \in ParsedResults(given_text)
    /\ rag = Pending
    /\ NoIds
    /\ NoExtraction

NextChunk == ChunkText \/ BuildRagJson

\* chunk_id = _stable_id(file_name, str(page_num), str(i), ch[:40])
StableId ==
    /\ \E parts \in IdParts, d \in Digests :
           LET memo == Sha1(digests, Join(parts, <<"|">>), d)
           IN  /\ digests' = memo
               /\ issued' = issued \cup {[parts |-> parts, id |-> _stable_id(parts, memo)]}
    /\ UNCHANGED <<parsing, export, earlier, extraction>>

InitId ==
    /\ tool = None
    /\ detect_scanned = TRUE
    /\ extract_images = FALSE
    /\ ocr_lang = "eng"
    /\ missing = {}
    /\ pdf = MissingPdf
    /\ scanned = Pending
    /\ analysis = Pending
    /\ selected = Pending
    /\ call = NoCall
    /\ NoExport
    /\ NoIds
    /\ NoExtraction

NextId == StableId

SpecId == InitId /\ [][NextId]_vars

SpecChunk == InitChunk /\ [][NextChunk]_vars

Spec == Init /\ [][Next]_vars

\* The classifier and the automatic selection on one PDF.
InitClassify ==
    /\ tool = None
    /\ detect_scanned \in BOOLEAN
    /\ extract_images = FALSE
    /\ ocr_lang = "eng"
    /\ missing \in {{}, {"fitz"}}
    /\ pdf \in Pdfs
    /\ scanned = Pending
    /\ analysis = Pending
    /\ selected = Pending
    /\ call = NoCall
    /\ NoExport
    /\ NoIds
    /\ NoExtraction

NextClassify == IsScannedPdf \/ AnalyzePdf \/ AutoSelectParser

SpecClassify == InitClassify /\ [][NextClassify]_vars

\* The quick scan detection on PDFs longer than its sample.
InitScan ==
    /\ tool = None
    /\ detect_scanned = TRUE
    /\ extract_images = FALSE
    /\ ocr_lang = "eng"
    /\ missing = {}
    /\ pdf \in ScanPdfs
    /\ scanned = Pending
    /\ analysis = Pending
    /\ selected = Pending
    /\ call = NoCall
    /\ NoExport
    /\ NoIds
    /\ NoExtraction

NextScan == IsScannedPdf

SpecScan == InitScan /\ [][NextScan]_vars

----------------------------------------------------------------------------
(* Properties of the classifier (SpecClassify, SpecScan).                  *)

\* A completed, non-empty analysis of the PDF.
Analyzed == analysis.state = "returned" /\ analysis.value # EmptyDict

PageNumbers(list) == Range(list)

\* C1: whenever _analyze_pdf completes without error, scanned_pages,
\* hybrid_pages and digital_pages are pairwise disjoint and their union is
\* exactly 1..total_pages.
C1_Partition ==
    Analyzed =>
        LET a == analysis.value
            S == PageNumbers(a.scanned_pages)
            H == PageNumbers(a.hybrid_pages)
            D == PageNumbers(a.digital_pages)
        IN  /\ S \cap H = {}
            /\ S \cap D = {}
            /\ H \cap D = {}
            /\ S \cup H \cup D = 1..a.total_pages

\* C2: every page is listed by (text length, images): scanned when the
\* length is at most 50, with or without an image; hybrid when it is above
\* 50 with an image; digital when it is above 50 without one.
C2_PageClasses ==
    Analyzed =>
        \A i \in 1..Len(pdf.pages) :
            LET page == pdf.pages[i]
                a == analysis.value
            IN  /\ (i \in PageNumbers(a.scanned_pages)) <=> page.text_len <= 50
                /\ (i \in PageNumbers(a.hybrid_pages))
                       <=> (page.text_len > 50 /\ page.n_images >= 1)
                /\ (i \in PageNumbers(a.digital_pages))
                       <=> (page.text_len > 50 /\ page.n_images = 0)

AllPagesIn(list, total_pages) == \A i \in 1..total_pages : i \in PageNumbers(list)

TypeByPages(a) ==
    /\ (a.type = "Scanned") <=> AllPagesIn(a.scanned_pages, a.total_pages)
    /\ (a.type = "Digital") <=> AllPagesIn(a.digital_pages, a.total_pages)
    /\ (a.type = "Hybrid") <=> (~AllPagesIn(a.scanned_pages, a.total_pages)
                                /\ ~AllPagesIn(a.digital_pages, a.total_pages))

\* C3, as claimed: for every PDF, type is 'Scanned' iff every page is in
\* scanned_pages, 'Digital' iff every page is in digital_pages, and 'Hybrid'
\* in every other case.
C3_TypeEveryPdf == Analyzed => TypeByPages(analysis.value)

\* C3, amended: the same for every PDF with at least one page; a PDF with
\* no pages, for which both conditions hold, gets 'Scanned'.
C3_Type ==
    Analyzed =>
        /\ analysis.value.total_pages >= 1 => TypeByPages(analysis.value)
        /\ analysis.value.total_pages = 0 => analysis.value.type = "Scanned"

C3_Witness ==
    /\ Analyzed
    /\ analysis.value.total_pages >= 2
    /\ analysis.value.type = "Hybrid"
    /\ analysis.value.scanned_pages # <<>>
    /\ analysis.value.digital_pages # <<>>

\* The pages _is_scanned_pdf is said to inspect and those among them with
\* fewer than 50 characters of stripped text.
SampleOf(pages) == {i \in 1..Len(pages) : i <= 5}
TextlessOf(pages) == {i \in SampleOf(pages) : pages[i].text_len < 50}

\* C4: _is_scanned_pdf looks at the first min(5, total_pages) pages only,
\* counts those with fewer than 50 characters and returns true iff
\* textless / sampled > 0.7; 4 of 5 gives true, 3 of 5 false, and the
\* result is that of the first five pages alone.
C4_QuickScan ==
    (scanned.state = "returned" /\ Len(pdf.pages) >= 1) =>
        LET sampled == Cardinality(SampleOf(pdf.pages))
            textless == Cardinality(TextlessOf(pdf.pages))
        IN  /\ sampled = Min(5, Len(pdf.pages))
            /\ scanned.value <=> (10 * textless > 7 * sampled)
            /\ (sampled = 5 /\ textless = 4) => scanned.value
            /\ (sampled = 5 /\ textless = 3) => ~scanned.value
            /\ scanned.value
                 = _is_scanned_pdf(ReadablePdf(SubSeq(pdf.pages, 1, sampled)), missing).value

C4_Witness ==
    /\ scanned.state = "returned"
    /\ scanned.value
    /\ Len(pdf.pages) = 6
    /\ Cardinality(TextlessOf(pdf.pages)) = 4
    /\ pdf.pages[6].text_len = 500

\* A document the classifier cannot open or read, and an empty one.
CannotOpen == pdf.state # "readable" \/ "fitz" \in missing
NoPage == ~CannotOpen /\ Len(pdf.pages) = 0

QuickScanFailsOpen ==
    /\ scanned.state # "raised"
    /\ scanned.state = "returned" => ~scanned.value
    /\ (selected # Pending /\ selected.doc_type = "pdf") =>
           /\ selected.ret.state = "returned"
           /\ selected.ret.value = "_parse_with_pymupdf4llm"

\* C5, as claimed: on a missing or corrupt file and on a document with zero
\* pages alike, _is_scanned_pdf returns false and _analyze_pdf returns an
\* empty result, neither raises, and auto-selection picks pymupdf4llm.
C5_FailOpenAlsoNoPage ==
    (CannotOpen \/ NoPage) =>
        /\ QuickScanFailsOpen
        /\ analysis.state # "raised"
        /\ analysis.state = "returned" => analysis.value = EmptyDict

\* C5, amended: as claimed for a file that cannot be opened or read; for a
\* document with zero pages _is_scanned_pdf returns false (its division by
\* zero is caught) and auto-selection picks pymupdf4llm, but _analyze_pdf
\* meets no error there and returns a non-empty result of type 'Scanned'
\* with total_pages 0 and three empty page lists.
C5_FailOpen ==
    /\ CannotOpen =>
           /\ QuickScanFailsOpen
           /\ analysis.state # "raised"
           /\ analysis.state = "returned" => analysis.value = EmptyDict
    /\ NoPage =>
           /\ QuickScanFailsOpen
           /\ analysis.state # "raised"
           /\ analysis.state = "returned" =>
                  analysis.value = [type |-> "Scanned", total_pages |-> 0,
                                    scanned_pages |-> <<>>, hybrid_pages |-> <<>>,
                                    digital_pages |-> <<>>, has_text |-> FALSE]

C5_Witness ==
    /\ pdf.state = "unreadable"
    /\ detect_scanned
    /\ scanned = Returned(FALSE)
    /\ analysis = Returned(EmptyDict)
    /\ selected # Pending
    /\ selected.doc_type = "pdf"
    /\ selected.ret.value = "_parse_with_pymupdf4llm"
    /\ selected.ret.scans = 1

\* C7: with no explicit tool the choice follows the document type alone:
\* for pdf, tesseract iff detect_scanned is on and the quick scan says
\* scanned, pymupdf4llm otherwise, the quick scan being run only when
\* detect_scanned is on; word, powerpoint, excel and text go to their one
\* reader; any other type is refused as unsupported.
C7_AutoSelect ==
    selected # Pending =>
        LET t == selected.doc_type
            r == selected.ret
        IN  /\ t = "pdf" =>
                  /\ r.state = "returned"
                  /\ r.value \in {"_parse_with_tesseract", "_parse_with_pymupdf4llm"}
                  /\ r.scans = IF detect_scanned THEN 1 ELSE 0
                  /\ ~detect_scanned => r.value = "_parse_with_pymupdf4llm"
                  /\ scanned.state = "returned" =>
                         ((r.value = "_parse_with_tesseract")
                              <=> (detect_scanned /\ scanned.value))
            /\ t = "word" => r = Chosen("_parse_word", 0)
            /\ t = "powerpoint" => r = Chosen("_parse_powerpoint", 0)
            /\ t = "excel" => r = Chosen("_parse_excel", 0)
            /\ t = "text" => r = Chosen("_parse_text", 0)
            /\ t \notin {"pdf", "word", "powerpoint", "excel", "text"} =>
                  /\ r.state = "raised"
                  /\ r.error = "ValueError: Unsupported document type"
                  /\ r.scans = 0

C7_Witness ==
    /\ selected # Pending
    /\ selected.doc_type = "pdf"
    /\ detect_scanned
    /\ scanned = Returned(TRUE)
    /\ selected.ret = Chosen("_parse_with_tesseract", 1)

----------------------------------------------------------------------------
(* Properties of parse (Spec).                                             *)

\* A parse call has ended, by a return or by an error.
Called == call # NoCall
\* ... and got as far as invoking an engine.
Invoked == Called /\ call.ret.events # <<>>

First == call.ret.events[1]
Last == call.ret.events[Len(call.ret.events)]

\* The tool_used each engine writes into the Document it builds.
ToolUsedBy(engine) ==
    CASE engine = "_parse_with_pymupdf" -> "PyMuPDF"
      [] engine = "_parse_with_pymupdf4llm" -> "PyMuPDF4LLM"
      [] engine = "_parse_with_pdfplumber" -> "pdfplumber"
      [] engine = "_parse_with_tesseract" -> "Tesseract OCR"
      [] engine = "_parse_with_easyocr" -> "EasyOCR"
      [] engine = "_parse_with_docling" -> "Docling"
      [] engine = "_parse_with_unstructured" -> "Unstructured"
      [] engine = "_parse_word" -> "python-docx"
      [] engine = "_parse_powerpoint" -> "python-pptx"
      [] engine = "_parse_excel" -> "openpyxl"
      [] engine = "_parse_text" -> "Built-in"

\* The first engine could not be imported.
Unavailable == Invoked /\ Imports(First.engine) \cap missing # {}

\* fitz is installed and reads the file: pymupdf succeeds on it.
PymupdfCanParse == "fitz" \notin missing /\ call.file.state = "readable"

\* The call went on to pymupdf after the first engine ended with `end`, and
\* its outcome is pymupdf's: pymupdf's Document when pymupdf can parse the
\* file, pymupdf's error otherwise.
FellBackAfter(end) ==
    /\ Len(call.ret.events) = 2
    /\ First.end = end
    /\ Last.engine = "_parse_with_pymupdf"
    /\ IF PymupdfCanParse
       THEN /\ call.ret.state = "returned"
            /\ Last.end = "returned"
            /\ call.ret.value.tool_used = "PyMuPDF"
            /\ Len(call.ret.value.pages) = Len(call.file.pages)
       ELSE /\ call.ret.state = "raised"
            /\ call.ret.error = Last.end

\* The first engine's error reached the caller and no other engine ran.
Propagated(error) ==
    /\ call.ret.state = "raised"
    /\ call.ret.error = error
    /\ call.ret.events = <<Ev(First.engine, error)>>

\* C6: with a registered explicit tool, parse invokes that tool's engine
\* whatever the document type and the scan classification of the input,
\* and never consults the quick scan detection.
C6_ExplicitTool ==
    (Called /\ tool \in DOMAIN method_map /\ call.file.state # "missing") =>
        /\ Invoked
        /\ First.engine = method_map[tool]
        /\ call.ret.scans = 0

C6_Witness ==
    /\ Invoked
    /\ tool = "pdfplumber"
    /\ detect_scanned
    /\ call.file.ext = "pdf"
    /\ call.file.pages = <<[text_len |-> 0, n_images |-> 1]>>
    /\ call.ret.state = "returned"
    /\ call.ret.events = <<Ev("_parse_with_pdfplumber", "returned")>>
    /\ call.ret.value.tool_used = "pdfplumber"

\* C8: when docling, unstructured or pdfplumber is selected and cannot be
\* imported, parse goes on to pymupdf and returns pymupdf's Document; and
\* every Document parse returns carries the tool_used of the engine that
\* built it, the last one that ran, never that of an engine that was
\* unavailable.
C8_Fallback ==
    /\ (Unavailable /\ First.engine \in {"_parse_with_docling",
                                         "_parse_with_unstructured",
                                         "_parse_with_pdfplumber"})
           => FellBackAfter("ImportError")
    /\ (Called /\ call.ret.state = "returned") =>
           /\ Invoked
           /\ Last.end = "returned"
           /\ call.ret.value.tool_used = ToolUsedBy(Last.engine)
           /\ \A i \in 1..Len(call.ret.events) :
                  call.ret.events[i].end = "ImportError"
                      => call.ret.value.tool_used # ToolUsedBy(call.ret.events[i].engine)

C8_Witness ==
    /\ Unavailable
    /\ tool = "pdfplumber"
    /\ missing = {"pdfplumber"}
    /\ call.ret.state = "returned"
    /\ call.ret.value.tool_used = "PyMuPDF"
    /\ call.ret.events = <<Ev("_parse_with_pdfplumber", "ImportError"),
                           Ev("_parse_with_pymupdf", "returned")>>

\* C9, as claimed: for pymupdf, pymupdf4llm, the word, powerpoint and
\* spreadsheet readers, tesseract OCR and easy OCR, a missing dependency
\* makes parse fail with the import error, and no other engine runs.
C9_NoFallbackAlsoPymupdf4llm ==
    (Unavailable /\ First.engine \in {"_parse_with_pymupdf", "_parse_with_pymupdf4llm",
                                      "_parse_word", "_parse_powerpoint", "_parse_excel",
                                      "_parse_with_tesseract", "_parse_with_easyocr"})
        => Propagated("ImportError")

\* C9, amended: that holds for pymupdf, the word, powerpoint and
\* spreadsheet readers, tesseract OCR and easy OCR; pymupdf4llm is not among
\* them: when it cannot be imported parse goes on to pymupdf, as it does
\* for docling, unstructured and pdfplumber.
C9_NoFallback ==
    /\ (Unavailable /\ First.engine \in {"_parse_with_pymupdf",
                                         "_parse_word", "_parse_powerpoint", "_parse_excel",
                                         "_parse_with_tesseract", "_parse_with_easyocr"})
           => Propagated("ImportError")
    /\ (Unavailable /\ First.engine = "_parse_with_pymupdf4llm")
           => FellBackAfter("ImportError")

C9_Witness ==
    /\ Unavailable
    /\ tool = None
    /\ call.file.ext = "docx"
    /\ missing = {"docx"}
    /\ call.ret.state = "raised"
    /\ call.ret.error = "ImportError"
    /\ call.ret.events = <<Ev("_parse_word", "ImportError")>>

\* C10: an exception raised while docling processes the file is caught and
\* parse goes on to pymupdf and returns its Document, tool_used 'PyMuPDF';
\* for every other engine an exception raised while it processes the file
\* propagates to the caller of parse.
C10_DoclingFailure ==
    (Invoked /\ First.end = "Exception") =>
        IF First.engine = "_parse_with_docling"
        THEN FellBackAfter("Exception")
        ELSE Propagated("Exception")

C10_Witness ==
    /\ Invoked
    /\ tool = "docling"
    /\ call.file.ext = "pdf"
    /\ call.ret.state = "returned"
    /\ call.ret.value.tool_used = "PyMuPDF"
    /\ call.ret.events = <<Ev("_parse_with_docling", "Exception"),
                           Ev("_parse_with_pymupdf", "returned")>>

----------------------------------------------------------------------------
(* The outcomes of parse (Spec).                                           *)

\* C11: every parse call ends with a complete Document or with one raised
\* error; it never returns as a success a Document with empty content and
\* empty pages that merely carries an error list.
C11_NoEmptySuccess ==
    Called =>
        /\ call.ret.state \in {"returned", "raised"}
        /\ call.ret.state = "returned" =>
               ~(/\ call.ret.value.errors
                 /\ call.ret.value.content = <<>>
                 /\ call.ret.value.pages = <<>>)

\* The class of the exception that carries an error.
ErrorKind(error) ==
    IF error \in {"ValueError: Unknown tool", "ValueError: Unsupported document type"}
    THEN "ValueError"
    ELSE error

Exists == call.file.state # "missing"
Registered == tool \in DOMAIN method_map

\* C12: for an existing file, an explicit tool that is not in the registry
\* makes parse fail with the 'Unknown tool' error before any engine is
\* invoked, and that error is of another kind than the error a registered
\* tool fails with when its dependency is missing.
C12_UnknownTool ==
    /\ (Called /\ Exists /\ Truthy(tool) /\ ~Registered) =>
           /\ call.ret.state = "raised"
           /\ call.ret.error = "ValueError: Unknown tool"
           /\ call.ret.events = <<>>
           /\ call.ret.scans = 0
    /\ (Unavailable /\ Registered /\ Len(call.ret.events) = 1) =>
           /\ call.ret.state = "raised"
           /\ call.ret.error = "ImportError"
           /\ ErrorKind(call.ret.error) # ErrorKind("ValueError: Unknown tool")

C12_Witness ==
    /\ Called
    /\ tool = "bogus"
    /\ call.file.state = "readable"
    /\ call.file.ext = "pdf"
    /\ call.ret = [state |-> "raised", error |-> "ValueError: Unknown tool",
                   events |-> <<>>, scans |-> 0, open |-> 0]

\* The extension of the file is in no category of SUPPORTED_EXTENSIONS.
NoCategory ==
    call.file.ext \notin UNION {SUPPORTED_EXTENSIONS[doc_type] : doc_type \in DocTypes}

UnsupportedType ==
    /\ call.ret.state = "raised"
    /\ call.ret.error = "ValueError: Unsupported document type"
    /\ call.ret.events = <<>>

\* C13, as claimed: parse of an existing file whose extension is in no
\* category fails with the unsupported-document-type error and invokes no
\* engine, whether or not an explicit tool is configured.
C13_UnsupportedWithAnyTool == (Called /\ Exists /\ NoCategory) => UnsupportedType

\* C13, amended: that holds when no explicit tool is configured.  With an
\* explicit tool the document type is not looked at: a registered tool's
\* engine is invoked on the file, and a Document it returns has file_type
\* 'unknown'; an unregistered tool fails with the 'Unknown tool' error.
C13_Unsupported ==
    (Called /\ Exists /\ NoCategory) =>
        /\ ~Truthy(tool) => UnsupportedType
        /\ (Truthy(tool) /\ Registered) =>
               /\ Invoked
               /\ First.engine = method_map[tool]
               /\ call.ret.state = "returned" => call.ret.value.file_type = "unknown"
        /\ (Truthy(tool) /\ ~Registered) =>
               /\ call.ret.state = "raised"
               /\ call.ret.error = "ValueError: Unknown tool"

C13_Witness ==
    /\ Called
    /\ tool = None
    /\ call.file.ext = "zip"
    /\ call.file.state = "readable"
    /\ UnsupportedType

\* C14: when the path does not exist parse raises the not-found error
\* before type detection, tool resolution, scan detection or any engine:
\* also when the tool is unknown or the extension unsupported.
C14_NotFoundFirst ==
    (Called /\ ~Exists) =>
        /\ call.ret.state = "raised"
        /\ call.ret.error = "FileNotFoundError"
        /\ call.ret.events = <<>>
        /\ call.ret.scans = 0

C14_Witness ==
    /\ Called
    /\ tool = "bogus"
    /\ call.file.ext = "zip"
    /\ call.file.state = "missing"
    /\ call.ret.state = "raised"
    /\ call.ret.error = "FileNotFoundError"

----------------------------------------------------------------------------
(* The Document parse returns (Spec).                                      *)

ReturnedDocument == Called /\ call.ret.state = "returned"

\* C15: in every Document an engine returns, the i-th entry of a non-empty
\* pages list has page_number i (numbering from 1, increasing, without
\* gaps), and the entries follow the order of the pages of the input: the
\* text of the i-th entry is the text extracted from the i-th page.
C15_PageNumbers ==
    ReturnedDocument =>
        \A i \in 1..Len(call.ret.value.pages) :
            LET entry == call.ret.value.pages[i]
            IN  /\ entry.page_number = i
                /\ entry.content[1].part = "text" =>
                       entry.content[1].of = <<call.file.pages[i]>>

C15_Witness ==
    /\ ReturnedDocument
    /\ Len(call.ret.value.pages) = 2
    /\ call.file.pages[1] # call.file.pages[2]
    /\ call.ret.value.pages[1] = [page_number |-> 1,
                                  content |-> PageText("fitz", call.file.pages[1])]
    /\ call.ret.value.pages[2] = [page_number |-> 2,
                                  content |-> PageText("fitz", call.file.pages[2])]

\* The contents of the pages in order, each after its heading line and a
\* blank line, with a blank line between one page and the next heading.
RECURSIVE Concatenated(_, _)
Concatenated(label, pages) ==
    IF pages = <<>> THEN <<>>
    ELSE <<Heading(label, pages[1].page_number), Newline, Newline>>
         \o pages[1].content
         \o (IF Len(pages) = 1
             THEN <<Newline>>
             ELSE <<Newline, Newline>> \o Concatenated(label, Tail(pages)))

\* The text a library made of the whole document, under no heading.
Flattened(content) == Len(content) = 1 /\ content[1].part = "document"

\* C16, as claimed: for every engine that returns a non-empty pages list
\* the content is the page contents in page order, each preceded by its
\* '## Page N' heading and separated by a blank line; the engines without
\* page semantics return flattened text and an empty pages list.
C16_ContentEveryEngine ==
    ReturnedDocument =>
        LET doc == call.ret.value
        IN  /\ doc.pages # <<>> => doc.content = Concatenated("Page", doc.pages)
            /\ doc.tool_used \in {"Unstructured", "openpyxl"} =>
                   doc.pages = <<>> /\ Flattened(doc.content)

\* C16, amended: that content is what pymupdf, pdfplumber, tesseract OCR
\* and easy OCR return; the powerpoint reader returns the same with
\* '## Slide N' headings; pymupdf4llm and docling return the library's
\* markdown of the whole document next to one pages entry per page; the word
\* and text readers return their text under no heading next to a single
\* pages entry that holds the same text; unstructured and the spreadsheet
\* reader return flattened text and an empty pages list.
C16_Content ==
    ReturnedDocument =>
        LET doc == call.ret.value
        IN  /\ doc.tool_used \in {"PyMuPDF", "pdfplumber", "Tesseract OCR", "EasyOCR"} =>
                   /\ doc.content = Concatenated("Page", doc.pages)
                   /\ Len(doc.pages) = Len(call.file.pages)
            /\ doc.tool_used = "python-pptx" =>
                   /\ doc.content = Concatenated("Slide", doc.pages)
                   /\ Len(doc.pages) = Len(call.file.pages)
            /\ (doc.tool_used \in {"PyMuPDF4LLM", "Docling"} /\ ~doc.errors) =>
                   /\ Flattened(doc.content)
                   /\ Len(doc.pages) = Len(call.file.pages)
            /\ doc.tool_used \in {"python-docx", "Built-in"} =>
                   /\ Flattened(doc.content)
                   /\ doc.pages = <<[page_number |-> 1, content |-> doc.content]>>
            /\ doc.tool_used \in {"Unstructured", "openpyxl"} =>
                   doc.pages = <<>> /\ Flattened(doc.content)

C16_Witness ==
    /\ ReturnedDocument
    /\ call.ret.value.tool_used = "PyMuPDF"
    /\ Len(call.ret.value.pages) = 2
    /\ call.ret.value.content =
           <<Heading("Page", 1), Newline, Newline>>
           \o call.ret.value.pages[1].content
           \o <<Newline, Newline, Heading("Page", 2), Newline, Newline>>
           \o call.ret.value.pages[2].content
           \o <<Newline>>

\* C17: a Document parse returns has a pdf_analysis other than None only
\* if the input is a PDF and detect_scanned is enabled: with detect_scanned
\* disabled it is absent for every engine, and for an input that is not a
\* PDF it is always absent.
C17_AnalysisOnlyOnRequest ==
    (ReturnedDocument /\ call.ret.value.pdf_analysis # NoAnalysis) =>
        /\ call.file.ext = "pdf"
        /\ detect_scanned

----------------------------------------------------------------------------
(* Properties of the chunker (SpecChunk).                                  *)

Blank(t) == \A i \in 1..Len(t) : IsSpace(t[i])
Trimmed(t) == t # <<>> => (~IsSpace(t[1]) /\ ~IsSpace(t[Len(t)]))
Letters(t) == SelectSeq(t, LAMBDA c : ~IsSpace(c))

\* Neither a carriage return, nor three line breaks in a row, nor two
\* spaces or tabs in a row, nor whitespace at either end.
Normalized(t) ==
    /\ \A i \in 1..Len(t) : t[i] # "\r"
    /\ \A i \in 1..(Len(t) - 2) : ~(t[i] = "\n" /\ t[i + 1] = "\n" /\ t[i + 2] = "\n")
    /\ \A i \in 1..(Len(t) - 1) : ~(t[i] \in {" ", "\t"} /\ t[i + 1] \in {" ", "\t"})
    /\ Trimmed(t)

\* C18: chunk_text returns the empty sequence for an empty or
\* whitespace-only text; for a text whose normalized form is non-empty and
\* shorter than max_chars it returns exactly one chunk, the normalized and
\* trimmed text (the text itself when it is already normalized).
C18_ShortText ==
    chunked # Pending =>
        LET s == _clean_text(given_text)
        IN  /\ Blank(given_text) => chunked.state = "returned" /\ chunked.value = <<>>
            /\ (s # <<>> /\ Len(s) < given_max_chars) =>
                   /\ chunked.state = "returned"
                   /\ chunked.value = <<s>>
                   /\ Normalized(s)
                   /\ Letters(s) = Letters(given_text)
                   /\ Normalized(given_text) => s = given_text

C18_Witness ==
    /\ chunked # Pending
    /\ given_text = <<" ", "a", " ", " ", "a", "\n">>
    /\ given_max_chars = 4
    /\ chunked.state = "returned"
    /\ chunked.value = << <<"a", " ", "a">> >>

\* The windows with the overlap removed, joined: of each window, the part
\* beyond the positions the windows before it covered.
RECURSIVE Reconstructed(_, _, _)
Reconstructed(s, windows, covered) ==
    IF windows = <<>> THEN <<>>
    ELSE LET w == Head(windows)
         IN  (IF w.end > covered THEN Slice(s, Max(w.start, covered), w.end) ELSE <<>>)
             \o Reconstructed(s, Tail(windows), Max(covered, w.end))

\* C19: when 0 <= overlap < max_chars and chunk_text returns, each window
\* starts at or before the end of the window before it, the windows run
\* from the first to the last position of the normalized text and cover
\* every position of it, so that the windows joined without their overlap
\* are the normalized text; the chunks are the windows, trimmed, without
\* the empty ones.
C19_RoundTrip ==
    (/\ chunked # Pending
     /\ 0 <= given_overlap /\ given_overlap < given_max_chars
     /\ chunked.state = "returned") =>
        LET s == _clean_text(given_text)
            w == chunked.windows
        IN  /\ s # <<>> => (w # <<>> /\ w[1].start = 0 /\ w[Len(w)].end = Len(s))
            /\ \A i \in 1..(Len(w) - 1) : w[i + 1].start <= w[i].end
            /\ \A q \in 0..(Len(s) - 1) :
                   \E i \in 1..Len(w) : w[i].start <= q /\ q < w[i].end
            /\ Reconstructed(s, w, 0) = s
            /\ chunked.value =
                   SelectSeq([i \in 1..Len(w) |-> Strip(Slice(s, w[i].start, w[i].end))],
                             LAMBDA c : c # <<>>)

C19_Witness ==
    /\ chunked # Pending
    /\ chunked.state = "returned"
    /\ given_max_chars = 3
    /\ given_overlap = 1
    /\ Len(chunked.windows) >= 3
    /\ Len(chunked.value) = Len(chunked.windows)
    /\ \E i \in 1..Len(chunked.windows) :
           Len(chunked.value[i]) < chunked.windows[i].end - chunked.windows[i].start

\* C20: every chunk chunk_text emits, and the text of every entry of the
\* chunks array build_rag_json builds, is non-empty and neither starts nor
\* ends with whitespace.
C20_NoBlankChunk ==
    /\ (chunked # Pending /\ chunked.state = "returned") =>
           \A i \in 1..Len(chunked.value) :
               chunked.value[i] # <<>> /\ Trimmed(chunked.value[i])
    /\ (rag # Pending /\ rag.state = "returned") =>
           \A i \in 1..Len(rag.value) :
               rag.value[i].text # <<>> /\ Trimmed(rag.value[i].text)

\* A window of whitespace was dropped, and the same text exported.
C20_Witness ==
    /\ chunked # Pending /\ chunked.state = "returned"
    /\ rag # Pending /\ rag.state = "returned"
    /\ Len(chunked.value) < Len(chunked.windows)
    /\ Len(chunked.value) >= 2
    /\ [i \in 1..Len(rag.value) |-> rag.value[i].text] = chunked.value

----------------------------------------------------------------------------
(* Properties of the chunk ids (SpecId).                                   *)

\* The two tuples differ in one character of one component.
OneCharApart(a, b) ==
    /\ Len(a) = Len(b)
    /\ \E k \in 1..Len(a) :
           /\ \A j \in (1..Len(a)) \ {k} : a[j] = b[j]
           /\ Len(a[k]) = Len(b[k])
           /\ Cardinality({q \in 1..Len(a[k]) : a[k][q] # b[k][q]}) = 1

Deterministic == \A a, b \in issued : a.parts = b.parts => a.id = b.id

----------------------------------------------------------------------------
(* Properties of build_rag_json (SpecChunk).                               *)

Exported == rag # Pending /\ rag.state = "returned"

\* The entries tagged with page n, in the order of the chunks array.
EntriesOfPage(n) == SelectSeq(rag.value, LAMBDA e : e.page = n)

\* The chunks of a text taken alone, with the parameters of the export.
ChunksOf(t) == chunk_text(t, given_max_chars, given_overlap).value

\* C22: when the results have pages, build_rag_json chunks each page's
\* text on its own: the entries tagged with a page are the chunks of that
\* page's text alone, in order, with chunk_index 0, 1, 2, ... within the
\* page, and every entry is tagged with a page of the results, pages in
\* order; when the results have no pages the entries are the chunks of the
\* content, chunk_index 0, 1, 2, ... over the document, without page tag.
C22_PerPage ==
    Exported =>
        IF parsed.pages # <<>>
        THEN /\ \A i \in 1..Len(rag.value) :
                    /\ "page" \in DOMAIN rag.value[i]
                    /\ \E k \in 1..Len(parsed.pages) :
                           parsed.pages[k].page_number = rag.value[i].page
             /\ \A i \in 1..(Len(rag.value) - 1) :
                    rag.value[i].page <= rag.value[i + 1].page
             /\ \A k \in 1..Len(parsed.pages) :
                    LET entries == EntriesOfPage(parsed.pages[k].page_number)
                        own == ChunksOf(parsed.pages[k].content)
                    IN  /\ Len(entries) = Len(own)
                        /\ \A j \in 1..Len(entries) :
                               /\ entries[j].text = own[j]
                               /\ entries[j].chunk_index = j - 1
        ELSE LET own == ChunksOf(parsed.content)
             IN  /\ Len(rag.value) = Len(own)
                 /\ \A j \in 1..Len(rag.value) :
                        /\ rag.value[j].text = own[j]
                        /\ rag.value[j].chunk_index = j - 1
                        /\ "page" \notin DOMAIN rag.value[j]

C22_Witness ==
    /\ Exported
    /\ Len(parsed.pages) = 2
    /\ parsed.content = <<"a">>
    /\ rag.value = <<[text |-> <<"a">>, page |-> 1, chunk_index |-> 0],
                     [text |-> <<"a">>, page |-> 1, chunk_index |-> 1],
                     [text |-> <<"a">>, page |-> 2, chunk_index |-> 0]>>

----------------------------------------------------------------------------
(* Document handles (Spec).                                                *)

\* C23: every PDF document handle opened by _is_scanned_pdf, _analyze_pdf
\* and the PDF engines is closed before the call returns or raises: no parse
\* call ends while a handle it opened is still open.
C23_HandlesClosed == Called => call.ret.open = 0

----------------------------------------------------------------------------
(* A sequence of parse calls on one parser (SpecBatch).                    *)

----------------------------------------------------------------------------
(* Termination and window sizes of chunk_text (SpecChunk).                 *)

\* C25: chunk_text terminates for every text and every max_chars and overlap
\* the number inputs of the export can supply, and every window after the
\* first starts further into the text than the window before it.
C25_Terminates ==
    chunked # Pending =>
        /\ chunked.state = "returned"
        /\ \A i \in 1..(Len(chunked.windows) - 1) :
               chunked.windows[i + 1].start > chunked.windows[i].start

\* A paragraph break starts at position q of s.
BreakAt(s, q) == q + 2 <= Len(s) /\ s[q + 1] = "\n" /\ s[q + 2] = "\n"

\* The window w of s was cut at the last paragraph break of the max_chars
\* characters from its start on.
CutAtLastBreak(s, w, max_chars) ==
    LET stop == Min(Len(s), w.start + max_chars)
    IN  /\ BreakAt(s, w.end)
        /\ w.end + 2 <= stop
        /\ \A q \in (w.end + 1)..(stop - 2) : ~BreakAt(s, q)

\* C26: every window chunk_text scans is at most max_chars long, and a
\* window that stops before the end of the text is max_chars long or ends
\* at the last paragraph break of the window, more than max_chars/2 into it.
C26_WindowSizes ==
    chunked # Pending =>
        LET s == _clean_text(given_text)
        IN  \A i \in 1..Len(chunked.windows) :
                LET w == chunked.windows[i]
                    size == w.end - w.start
                IN  /\ size <= given_max_chars
                    /\ w.end < Len(s) =>
                           \/ size = given_max_chars
                           \/ /\ 2 * size > given_max_chars
                              /\ CutAtLastBreak(s, w, given_max_chars)

\* A window was cut at a paragraph break, short of max_chars.
C26_Witness ==
    /\ chunked # Pending
    /\ chunked.state = "returned"
    /\ \E i \in 1..Len(chunked.windows) :
           LET w == chunked.windows[i]
           IN  /\ w.end < Len(_clean_text(given_text))
               /\ w.end - w.start < given_max_chars
               /\ 2 * (w.end - w.start) > given_max_chars

----------------------------------------------------------------------------
(* The engines one parse call invokes (Spec).                              *)

\* C27: one parse call invokes at most two engines; a second engine is
\* always pymupdf, invoked after another engine did not return; and when
\* pymupdf raises no engine is invoked after it and the call raises that
\* error.
C27_OneRetry ==
    Called =>
        LET e == call.ret.events
        IN  /\ Len(e) <= 2
            /\ Len(e) = 2 =>
                   /\ e[2].engine = "_parse_with_pymupdf"
                   /\ e[1].engine # "_parse_with_pymupdf"
                   /\ e[1].end # "returned"
            /\ \A i \in 1..Len(e) :
                   (e[i].engine = "_parse_with_pymupdf" /\ e[i].end # "returned") =>
                       /\ i = Len(e)
                       /\ call.ret.state = "raised"
                       /\ call.ret.error = e[i].end

\* A fallback to pymupdf that raised in its turn.
C27_Witness ==
    /\ Called
    /\ Len(call.ret.events) = 2
    /\ call.ret.events[1].end = "Exception"
    /\ call.ret.events[2] = Ev("_parse_with_pymupdf", "Exception")
    /\ call.ret.state = "raised"

----------------------------------------------------------------------------
(* The tables of pdfplumber (SpecTables).                                  *)

\* A cell as the pipe-table should show it: nothing for None and for "".
Shown(cell) == IF cell.kind = "None" THEN <<>> ELSE cell.text

\* The pipe-table of a table: header row, one "---" per header cell, then
\* the data rows, None and empty cells shown as nothing in every row.
PipeTable(table) ==
    Join([r \in 1..(Len(table) + 1) |->
            IF r = 2
            THEN <<"|">> \o Join([i \in 1..Len(table[1]) |-> <<"---">>], <<"|">>)
                 \o <<"|", "\n">>
            ELSE LET row == table[IF r = 1 THEN 1 ELSE r - 1]
                 IN  <<"| ">> \o Join([i \in 1..Len(row) |-> Shown(row[i])], <<" | ">>)
                     \o <<" |", "\n">>],
         <<>>)

\* The sequence part occurs in whole, as one run.
Contains(whole, part) ==
    \E k \in 0..(Len(whole) - Len(part)) : SubSeq(whole, k + 1, k + Len(part)) = part

\* C28: for every extracted table whose first row is not empty the Markdown
\* of the page contains the pipe-table of that table: header row, separator
\* row with one "---" per header cell and one row per data row, with every
\* None or empty cell, of the header row and of the data rows, rendered as
\* the empty string.
C28_PipeTable ==
    table_md # Pending =>
        \A k \in 1..Len(given_tables) :
            (given_tables[k] # <<>> /\ given_tables[k][1] # <<>>) =>
                Contains(table_md, PipeTable(given_tables[k]))

----------------------------------------------------------------------------
(* The images of a Document (SpecImages).                                  *)

\* C29: with image extraction enabled the images list holds no two entries
\* of the same image object, on however many pages the object is referred
\* to, and every entry, decoded or rendered, is at least 50 wide and 50
\* high.
C29_Images ==
    (extract_images /\ extracted # Pending /\ extracted.state = "returned") =>
        LET images == extracted.value
        IN  /\ \A i, j \in 1..Len(images) : images[i].xref = images[j].xref => i = j
            /\ \A i \in 1..Len(images) :
                   images[i].width >= 50 /\ images[i].height >= 50

\* An image referred to on two pages was stored once, and a smaller image
\* not at all.
C29_Witness ==
    /\ extract_images
    /\ extracted # Pending
    /\ extracted.state = "returned"
    /\ given_image_lists.lists = <<<<1, 2>>, <<2, 1>>>>
    /\ given_image_lists.objects[2].width < 50
    /\ given_image_lists.objects[2].pil = "opens"
    /\ Len(extracted.value) = 1
    /\ extracted.value[1].xref = 1

----------------------------------------------------------------------------
(* The export of results with pages (SpecChunk).                           *)

\* C30: when the results have pages, build_rag_json takes no chunk from the
\* content: every entry is tagged with a page and its letters are letters
\* of that page's content, and when every page's content is blank the
\* chunks array is empty, blank content or not.
C30_NoContentFallback ==
    (Exported /\ parsed.pages # <<>>) =>
        /\ \A i \in 1..Len(rag.value) :
               /\ "page" \in DOMAIN rag.value[i]
               /\ \E k \in 1..Len(parsed.pages) :
                      /\ parsed.pages[k].page_number = rag.value[i].page
                      /\ Len(Letters(rag.value[i].text))
                             <= Len(Letters(parsed.pages[k].content))
        /\ (\A k \in 1..Len(parsed.pages) : Blank(parsed.pages[k].content))
               => rag.value = <<>>

\* Results with blank pages and a content that is not blank, exported.
C30_Witness ==
    /\ Exported
    /\ Len(parsed.pages) = 2
    /\ \A k \in 1..Len(parsed.pages) : Blank(parsed.pages[k].content)
    /\ parsed.pages[2].content # <<>>
    /\ ~Blank(parsed.content)
    /\ rag.value = <<>>

====
